---- MODULE Spec2Model ----
(***************************************************************************)
(* CLIPTextEncoder (clip_text.py): construction and the encode request     *)
(* handler, as a state machine.                                            *)
(*                                                                         *)
(* A record collection is a sequence of records [text, embedding, level].  *)
(* A text is the sequence of its tokens; the empty sequence is the empty   *)
(* or missing text, the only falsy text.  Texts differ by their length,    *)
(* every word being the token 1.  level is "r" for a root record and "c"   *)
(* for a nested sub-record; the sequence lists the roots first and then    *)
(* the sub-records, each group in traversal order.                         *)
(***************************************************************************)
EXTENDS Integers, Sequences, FiniteSets, TLC

(* ----------------------------- bounds ---------------------------------- *)
MaxDocs == 3        \* records in one request
MaxTextLen == 2     \* tokens in one text
MaxBatch == 3       \* batch sizes are 1..MaxBatch

(* ------------------------- program constants --------------------------- *)
EmbeddingDim == 512

NoneStr == "None"                       \* Optional[str] argument left out
None == [none |-> TRUE]                 \* an unset embedding / handle / return
DefaultModel == "openai/clip-vit-base-patch32"
BadId == "no/such-model"
ModelIds == {DefaultModel, BadId}
Resolvable == {DefaultModel}
Paths == {"@r", "@c", "@r,c"}

(* ------------------------------ helpers -------------------------------- *)
Min(a, b) == IF a < b THEN a ELSE b

Max(a, b) == IF a < b THEN b ELSE a

Texts == {[j \in 1..n |-> 1] : n \in 0..MaxTextLen}

\* Document(text=t): the embedding is unset
Doc(t, l) == [text |-> t, embedding |-> None, level |-> l]

\* the collections a caller submits: the roots before the sub-records
Collections ==
    UNION {
        {[i \in 1..n |-> Doc(ts[i], IF i <= k THEN "r" ELSE "c")] :
            ts \in [1..n -> Texts], k \in 0..n}
        : n \in 0..MaxDocs}

EmptyDict == [k \in {} |-> 0]

ParameterDicts ==
    {EmptyDict}
    \cup {[access_paths |-> p] : p \in Paths}
    \cup {[batch_size |-> b] : b \in 1..MaxBatch}
    \cup {[access_paths |-> p, batch_size |-> b] : p \in Paths, b \in 1..MaxBatch}

\* dict.get(key, default)
Get(d, key, default) == IF key \in DOMAIN d THEN d[key] ELSE default

CtorArgs ==
    [pretrained_model_name_or_path : ModelIds,
     base_tokenizer_model : {NoneStr, BadId},
     max_length : {1, 2},
     access_paths : {"@r", "@c"},
     traversal_paths : {NoneStr, "@c"},
     batch_size : {2}]

VARIABLES
    phase,          \* "new", "ready" (constructed, serving) or "failed"
    ctor,           \* the arguments of the constructor call
    access_paths, batch_size, max_length,
    base_tokenizer_model, tokenizer, model,   \* fields of the component
    warnings,       \* number of DeprecationWarnings emitted
    error,          \* the exception the last operation raised, or NoneStr
    pc,             \* "idle", "loop" (inside encode's for), "returned", "raised"
    docs,           \* the collection of the current request
    docs0,          \* the same collection as it was when encode was called
    parameters,     \* the parameters of the current request
    filtered,       \* indexes into docs of the DocumentArray being batched
    batch_n,        \* number of batches the generator has yielded
    batchLog,       \* the batches handed to the model so far, in order
    ret,            \* what encode returned
    afterOverride   \* the request before this one carried a parameter override
                    \* and this one (if one is being served) carries none

cfg == <<access_paths, batch_size, max_length, base_tokenizer_model, tokenizer, model>>
req == <<docs, docs0, parameters, filtered, batch_n, batchLog, ret>>
vars == <<phase, ctor, cfg, warnings, error, pc, req, afterOverride>>

(* --------------------- docarray / transformers ------------------------- *)
Indexes(d) == [i \in 1..Len(d) |-> i]

OfLevel(d, l) == SelectSeq(Indexes(d), LAMBDA i : d[i].level = l)

Traverse_IgnorePath(d, path) == Indexes(d)

\* docs[path]: the flat, ordered view the path selects
Traverse(d, path) ==
    IF path = "@r" THEN OfLevel(d, "r")
    ELSE IF path = "@c" THEN OfLevel(d, "c")
    ELSE OfLevel(d, "r") \o OfLevel(d, "c")

FilterText_KeepAll(d, view) == view

\* DocumentArray(filter(lambda x: bool(x.text), view))
FilterText(d, view) == SelectSeq(view, LAMBDA i : d[i].text # <<>>)

NBatches_Floor(n, b) == n \div b

\* ceil(n / b)
NBatches(n, b) == (n + b - 1) \div b

BatchAt_OffByOne(f, b, k) == SubSeq(f, k * b + 1, Min((k + 1) * b, Len(f)) - 1)

BatchAt_Overlap(f, b, k) == SubSeq(f, k * b + 1, Min((k + 2) * b, Len(f)))

\* the k-th (from 0) slice DocumentArray.batch yields
BatchAt(f, b, k) == SubSeq(f, k * b + 1, Min((k + 1) * b, Len(f)))

\* tokenizer(texts, max_length, padding='longest', truncation=True)
Truncate(t, ml) == SubSeq(t, 1, Min(Len(t), ml))

RECURSIVE Longest(_)
Longest(rows) == IF rows = <<>> THEN 0 ELSE Max(Len(Head(rows)), Longest(Tail(rows)))

\* the pad token is written 0
PadTo(t, w) == [j \in 1..w |-> IF j <= Len(t) THEN t[j] ELSE 0]

MaskTo(t, w) == [j \in 1..w |-> IF j <= Len(t) THEN 1 ELSE 0]

_generate_input_tokens(texts, ml) ==
    LET rows == [i \in 1..Len(texts) |-> Truncate(texts[i], ml)]
        w == Longest(rows)
    IN  [input_ids |-> [i \in 1..Len(rows) |-> PadTo(rows[i], w)],
         attention_mask |-> [i \in 1..Len(rows) |-> MaskTo(rows[i], w)]]

\* the tokens of a row the attention mask lets the model see
Attended(ids, mask) ==
    LET seen == SelectSeq([j \in 1..Len(ids) |-> j], LAMBDA j : mask[j] = 1)
    IN  [m \in 1..Len(seen) |-> ids[seen[m]]]

\* model.get_text_features(**input_tokens).cpu().numpy(): one vector per row
get_text_features(input_tokens) ==
    [i \in 1..Len(input_tokens.input_ids) |->
        [shape |-> EmbeddingDim,
         of |-> Attended(input_tokens.input_ids[i], input_tokens.attention_mask[i])]]

ZipAssign_FirstToAll(d, docs_batch, embeddings) ==
    [i \in 1..Len(d) |->
        IF i \in {docs_batch[j] : j \in 1..Len(docs_batch)}
        THEN [d[i] EXCEPT !.embedding = embeddings[1]]
        ELSE d[i]]

ZipAssign_Reversed(d, docs_batch, embeddings) ==
    [i \in 1..Len(d) |->
        IF \E j \in 1..Len(docs_batch) : docs_batch[j] = i
        THEN LET j == CHOOSE j \in 1..Len(docs_batch) : docs_batch[j] = i
             IN  [d[i] EXCEPT !.embedding = embeddings[Len(embeddings) + 1 - j]]
        ELSE d[i]]

\* for doc, embedding in zip(docs_batch, embeddings): doc.embedding = embedding
ZipAssign(d, docs_batch, embeddings) ==
    [i \in 1..Len(d) |->
        IF \E j \in 1..Min(Len(docs_batch), Len(embeddings)) : docs_batch[j] = i
        THEN LET j == CHOOSE j \in 1..Min(Len(docs_batch), Len(embeddings)) :
                          /\ docs_batch[j] = i
                          /\ \A m \in (j+1)..Min(Len(docs_batch), Len(embeddings)) : docs_batch[m] # i
             IN  [d[i] EXCEPT !.embedding = embeddings[j]]
        ELSE d[i]]

\* the body of encode's for loop on one batch
EncodeBatchBody(d, docs_batch, ml) ==
    LET text_batch == [j \in 1..Len(docs_batch) |-> d[docs_batch[j]].text]
        input_tokens == _generate_input_tokens(text_batch, ml)
        embeddings == get_text_features(input_tokens)
    IN  ZipAssign(d, docs_batch, embeddings)

(* ----------------------------- __init__ -------------------------------- *)
Init ==
    /\ phase = "new"
    /\ ctor \in CtorArgs
    /\ access_paths = NoneStr /\ batch_size = 0 /\ max_length = 0
    /\ base_tokenizer_model = NoneStr /\ tokenizer = None /\ model = None
    /\ warnings = 0
    /\ error = NoneStr
    /\ pc = "idle"
    /\ docs = <<>> /\ docs0 = <<>> /\ parameters = EmptyDict
    /\ filtered = <<>> /\ batch_n = 0 /\ batchLog = <<>>
    /\ ret = None
    /\ afterOverride = FALSE

\* CLIPTokenizer.from_pretrained / CLIPModel.from_pretrained
CanLoad(id) == id \in Resolvable

from_pretrained(id) == [loaded |-> id]

CtorAccessPaths_PreferAccess(a) == a.access_paths

CtorAccessPaths(a) ==
    IF a.traversal_paths # NoneStr THEN a.traversal_paths ELSE a.access_paths

CtorWarnings(a) == IF a.traversal_paths # NoneStr THEN 1 ELSE 0

CtorTokenizerId_IgnoreBase(a) == a.pretrained_model_name_or_path

CtorTokenizerId(a) ==
    IF a.base_tokenizer_model # NoneStr THEN a.base_tokenizer_model
    ELSE a.pretrained_model_name_or_path

Construct ==
    /\ phase = "new"
    /\ access_paths' = CtorAccessPaths(ctor)
    /\ warnings' = warnings + CtorWarnings(ctor)
    /\ batch_size' = ctor.batch_size
    /\ base_tokenizer_model' = CtorTokenizerId(ctor)
    /\ max_length' = ctor.max_length
    /\ IF ~CanLoad(CtorTokenizerId(ctor))
       THEN /\ error' = "OSError" /\ phase' = "failed"
            /\ UNCHANGED <<tokenizer, model>>
       ELSE /\ tokenizer' = from_pretrained(CtorTokenizerId(ctor))
            /\ IF ~CanLoad(ctor.pretrained_model_name_or_path)
               THEN /\ error' = "OSError" /\ phase' = "failed"
                    /\ UNCHANGED model
               ELSE /\ model' = from_pretrained(ctor.pretrained_model_name_or_path)
                    /\ phase' = "ready"
                    /\ UNCHANGED error
    /\ UNCHANGED <<ctor, pc, req, afterOverride>>

(* ------------------------------ encode --------------------------------- *)
EffPath(p) == Get(p, "access_paths", access_paths)

EffBatch_IgnoreParameter(p) == batch_size

EffBatch(p) == Get(p, "batch_size", batch_size)

\* the host calls encode(docs, parameters); the DocumentArray to batch is built
EncodeCall ==
    /\ phase = "ready"
    /\ pc = "idle"
    /\ \E d \in Collections, p \in ParameterDicts :
        /\ docs' = d /\ docs0' = d /\ parameters' = p
        /\ filtered' = FilterText(d, Traverse(d, EffPath(p)))
    /\ batch_n' = 0 /\ batchLog' = <<>>
    /\ ret' = None
    /\ error' = NoneStr
    /\ pc' = "loop"
    /\ afterOverride' = (afterOverride /\ parameters' = EmptyDict)
    /\ UNCHANGED <<phase, ctor, cfg, warnings>>

\* one iteration of the for loop: tokenizer and forward pass succeed
EncodeBatch ==
    /\ pc = "loop"
    /\ batch_n < NBatches(Len(filtered), EffBatch(parameters))
    /\ LET docs_batch == BatchAt(filtered, EffBatch(parameters), batch_n)
       IN  /\ docs' = EncodeBatchBody(docs, docs_batch, max_length)
           /\ batchLog' = Append(batchLog, docs_batch)
    /\ batch_n' = batch_n + 1
    /\ UNCHANGED <<phase, ctor, cfg, warnings, error, pc, docs0, parameters, filtered, ret,
                   afterOverride>>

\* one iteration of the for loop: the tokenizer or the forward pass raises
EncodeBatchRaise ==
    /\ pc = "loop"
    /\ batch_n < NBatches(Len(filtered), EffBatch(parameters))
    /\ error' = "RuntimeError"
    /\ pc' = "raised"
    /\ UNCHANGED <<phase, ctor, cfg, warnings, req, afterOverride>>

\* the generator is exhausted: encode falls off its end
EncodeReturn ==
    /\ pc = "loop"
    /\ batch_n = NBatches(Len(filtered), EffBatch(parameters))
    /\ ret' = None
    /\ pc' = "returned"
    /\ UNCHANGED <<phase, ctor, cfg, warnings, error, docs, docs0, parameters,
                   filtered, batch_n, batchLog, afterOverride>>

\* the host takes the response (or the exception); the request is over
Respond ==
    /\ pc \in {"returned", "raised"}
    /\ pc' = "idle"
    /\ error' = NoneStr
    /\ docs' = <<>> /\ docs0' = <<>> /\ parameters' = EmptyDict
    /\ filtered' = <<>> /\ batch_n' = 0 /\ batchLog' = <<>>
    /\ ret' = None
    /\ afterOverride' = (parameters # EmptyDict)
    /\ UNCHANGED <<phase, ctor, cfg, warnings>>

Next ==
    \/ Construct
    \/ EncodeCall
    \/ EncodeBatch
    \/ EncodeBatchRaise
    \/ EncodeReturn
    \/ Respond

Spec == Init /\ [][Next]_vars

\* the component constructed with every argument left at its default
DefaultArgs ==
    [pretrained_model_name_or_path |-> DefaultModel,
     base_tokenizer_model |-> NoneStr,
     max_length |-> 2,
     access_paths |-> "@r",
     traversal_paths |-> NoneStr,
     batch_size |-> 2]

InitDefault == Init /\ ctor = DefaultArgs

SpecDefault == InitDefault /\ [][Next]_vars

(* ------------------- encode as a function of its inputs ---------------- *)
RECURSIVE EncodeFrom(_, _, _, _, _)
EncodeFrom(d, f, b, k, ml) ==
    IF k >= NBatches(Len(f), b) THEN d
    ELSE EncodeFrom(EncodeBatchBody(d, BatchAt(f, b, k), ml), f, b, k + 1, ml)

\* the collection encode leaves when no batch raises
Encode(d, path, b, ml) == EncodeFrom(d, FilterText(d, Traverse(d, path)), b, 0, ml)

(* --------------------------- vocabulary -------------------------------- *)
Range(f) == {f[i] : i \in DOMAIN f}

InCall == pc \in {"loop", "returned", "raised"}

ThePath == EffPath(parameters)

TheBatch == EffBatch(parameters)

\* the levels a path selects
PathLevels(path) == IF path = "@r" THEN {"r"} ELSE IF path = "@c" THEN {"c"} ELSE {"r", "c"}

\* record i is selected by the path and has non-empty text
Qualifies(d, i, path) == d[i].level \in PathLevels(path) /\ d[i].text # <<>>

\* the j-th (from 1) run of b elements of f
Chunk(f, b, j) == [m \in 1..(Min(j * b, Len(f)) - (j - 1) * b) |-> f[(j - 1) * b + m]]

NQualifying == Cardinality({i \in 1..Len(docs0) : Qualifies(docs0, i, ThePath)})

\* the vector the model gives a text encoded on its own
OwnVector(t) == get_text_features(_generate_input_tokens(<<t>>, max_length))[1]

RECURSIVE Concat(_)
Concat(ss) == IF ss = <<>> THEN <<>> ELSE Head(ss) \o Concat(Tail(ss))

Perms(n) == {f \in [1..n -> 1..n] : \A i, j \in 1..n : f[i] = f[j] => i = j}

AllPerms == UNION {Perms(n) : n \in 0..MaxDocs}

PermsOf(d) == {f \in AllPerms : DOMAIN f = DOMAIN d}

Permute(d, f) == [i \in 1..Len(d) |-> d[f[i]]]

(* ------------------------------ claims --------------------------------- *)

\* C1: after an encode call that completes without error, every record the
\* effective path selects and whose text is non-empty has a non-null
\* embedding of the model's output dimensionality, whatever the collection
\* size and the (positive) batch size.
C1_EmbeddingSet ==
    pc = "returned" =>
        \A i \in 1..Len(docs) :
            Qualifies(docs0, i, ThePath) =>
                /\ docs[i].embedding # None
                /\ docs[i].embedding.shape = EmbeddingDim

\* a completed call whose batch size is smaller than the number of qualifying
\* records, the last batch being partial
C1_Witness ==
    /\ pc = "returned"
    /\ NQualifying >= 3
    /\ TheBatch = 2
    /\ \A i \in Range(filtered) : docs[i].embedding.shape = EmbeddingDim

\* C2: a record whose text is empty or missing keeps the embedding it had
\* before the call, wherever it sits and whatever the batch size.
C2_EmptyTextUntouched ==
    InCall =>
        \A i \in 1..Len(docs) :
            docs0[i].text = <<>> => docs[i].embedding = docs0[i].embedding

\* a completed call on a collection with a selected empty-text record between
\* two selected records with text, which were encoded
C2_Witness ==
    /\ pc = "returned"
    /\ \E i, j, k \in Range(Traverse(docs0, ThePath)) :
        /\ i < j /\ j < k
        /\ docs0[j].text = <<>> /\ docs[j].embedding = None
        /\ docs[i].embedding # None /\ docs[k].embedding # None
        /\ docs0[i].embedding = None /\ docs0[k].embedding = None

\* C3: the batch size does not affect the output: the collection a completed
\* call leaves is the one encode leaves under every other positive batch size.
C3_BatchSizeIrrelevant ==
    pc = "returned" =>
        \A b2 \in 1..MaxBatch : docs = Encode(docs0, ThePath, b2, max_length)

\* a completed call that used several batches, with texts of different lengths
\* (so that padding happened) in one batch
C3_Witness ==
    /\ pc = "returned"
    /\ Len(batchLog) >= 2
    /\ \E j \in 1..Len(batchLog) : \E x, y \in Range(batchLog[j]) :
            Len(docs0[x].text) < Len(docs0[y].text)
    /\ docs # docs0

\* C4: every qualifying record ends with the vector of its own text (the i-th
\* record of a batch takes the i-th vector of the batch), and permuting the
\* input records permutes the resulting embeddings in the same way.
C4_OrderPreserved ==
    pc = "returned" =>
        /\ \A i \in 1..Len(docs) :
                Qualifies(docs0, i, ThePath) =>
                    docs[i].embedding = OwnVector(docs0[i].text)
        /\ \A f \in PermsOf(docs0) :
                Encode(Permute(docs0, f), ThePath, TheBatch, max_length) = Permute(docs, f)

\* a completed call where one batch held two records with different vectors
C4_Witness ==
    /\ pc = "returned"
    /\ \E j \in 1..Len(batchLog) : \E x, y \in Range(batchLog[j]) :
            /\ x # y
            /\ docs[x].embedding # docs[y].embedding
            /\ docs[x].embedding = OwnVector(docs0[x].text)

\* what the construction-time arguments make the defaults
CtorPath == IF ctor.traversal_paths = NoneStr THEN ctor.access_paths ELSE ctor.traversal_paths

ExpectedPath == IF "access_paths" \in DOMAIN parameters THEN parameters.access_paths ELSE CtorPath

ExpectedBatch == IF "batch_size" \in DOMAIN parameters THEN parameters.batch_size ELSE ctor.batch_size

\* C5: an override in the parameters applies to that call only: the call uses
\* the parameter when the key is present and the construction-time default
\* when it is absent, and no step of a constructed component changes its
\* stored access_paths and batch_size, so that a call is determined by its own
\* inputs and the construction-time values alone.
C5_OverridesPerCall ==
    /\ [](InCall =>
            /\ filtered = FilterText(docs0, Traverse(docs0, ExpectedPath))
            /\ \A j \in 1..Len(batchLog) : batchLog[j] = Chunk(filtered, ExpectedBatch, j)
            /\ pc = "returned" => docs = Encode(docs0, ExpectedPath, ExpectedBatch, ctor.max_length))
    /\ [](phase = "ready" => access_paths = CtorPath /\ batch_size = ctor.batch_size)
    /\ [][phase = "ready" => access_paths' = access_paths /\ batch_size' = batch_size]_vars

\* a call without overrides, made after a call with overrides, that encoded
\* records under the construction-time defaults
C5_Witness ==
    /\ pc = "returned"
    /\ afterOverride
    /\ parameters = EmptyDict
    /\ Len(filtered) = ctor.batch_size
    /\ batchLog = <<filtered>>
    /\ \E i \in 1..Len(docs0) : ~Qualifies(docs0, i, CtorPath) /\ docs0[i].text # <<>>

\* C6: with traversal_paths supplied, access_paths is the traversal_paths
\* value and exactly one deprecation warning was emitted; without it,
\* access_paths is the supplied (or default) access_paths and none was.
C6_TraversalPathsAlias ==
    phase # "new" =>
        IF ctor.traversal_paths # NoneStr
        THEN access_paths = ctor.traversal_paths /\ warnings = 1
        ELSE access_paths = ctor.access_paths /\ warnings = 0

\* a component constructed with a traversal_paths that differs from the
\* access_paths argument, after it served a request
C6_Witness ==
    /\ phase = "ready"
    /\ ctor.traversal_paths # NoneStr
    /\ ctor.traversal_paths # ctor.access_paths
    /\ access_paths = ctor.traversal_paths
    /\ pc = "returned"

\* the identifier the tokenizer is loaded from
TokenizerArg ==
    IF ctor.base_tokenizer_model = NoneStr THEN ctor.pretrained_model_name_or_path
    ELSE ctor.base_tokenizer_model

CtorUnresolvable ==
    \/ TokenizerArg \notin Resolvable
    \/ ctor.pretrained_model_name_or_path \notin Resolvable

PosInFiltered(i) ==
    IF i \in Range(filtered) THEN CHOOSE j \in 1..Len(filtered) : filtered[j] = i ELSE 0

\* C8: when the k-th batch raises, the error reaches the caller, the records
\* of batches 1..k-1 have their embeddings, the records of batch k and of
\* the later batches have the embedding they had before the call, and the
\* batches were taken one at a time in order, none twice.
C8_PartialOnFailure ==
    pc = "raised" =>
        /\ error = "RuntimeError"
        /\ ret = None
        /\ Len(batchLog) = batch_n
        /\ \A j \in 1..Len(batchLog) : batchLog[j] = Chunk(filtered, TheBatch, j)
        /\ \A i \in 1..Len(docs) :
            IF PosInFiltered(i) \in 1..(batch_n * TheBatch)
            THEN docs[i].embedding = OwnVector(docs0[i].text)
            ELSE docs[i].embedding = docs0[i].embedding

\* a call that raised on its second batch, a third being left
C8_Witness ==
    /\ pc = "raised"
    /\ batch_n = 1
    /\ Len(filtered) > 2 * TheBatch
    /\ docs[filtered[1]].embedding # docs0[filtered[1]].embedding
    /\ docs[filtered[2]].embedding = None

\* the least m with m * b >= n
CeilDiv(n, b) == CHOOSE m \in 0..n : m * b >= n /\ \A k \in 0..(m - 1) : k * b < n

\* C9: the batches are non-empty, contiguous and in order: each has at most b
\* records, each but possibly the last exactly b, their concatenation is a
\* prefix of the filtered sub-sequence and, when the call completes, the
\* whole of it, in ceil(n/b) batches; no qualifying record, no batch.
C9_BatchPartition ==
    InCall =>
        /\ filtered = FilterText(docs0, Traverse(docs0, ThePath))
        /\ \A j \in 1..Len(batchLog) :
            /\ batchLog[j] # <<>>
            /\ Len(batchLog[j]) <= TheBatch
            /\ j < CeilDiv(Len(filtered), TheBatch) => Len(batchLog[j]) = TheBatch
        /\ Concat(batchLog) = SubSeq(filtered, 1, Len(Concat(batchLog)))
        /\ Len(batchLog) <= CeilDiv(Len(filtered), TheBatch)
        /\ pc = "returned" =>
            /\ Len(batchLog) = CeilDiv(Len(filtered), TheBatch)
            /\ Concat(batchLog) = filtered
        /\ filtered = <<>> => batchLog = <<>>

\* a completed call with two batches, a full one and a partial one
C9_Witness ==
    /\ pc = "returned"
    /\ Len(filtered) = 3
    /\ TheBatch = 2
    /\ batchLog = <<SubSeq(filtered, 1, 2), SubSeq(filtered, 3, 3)>>

\* C10: encode writes only the embedding of the records the path selects and
\* whose text is non-empty: texts, the embeddings of the other records, the
\* number and the order of the records are as before, and nothing is returned.
C10_Frame ==
    InCall =>
        /\ Len(docs) = Len(docs0)
        /\ \A i \in 1..Len(docs) :
            /\ docs[i].text = docs0[i].text
            /\ docs[i].level = docs0[i].level
            /\ ~Qualifies(docs0, i, ThePath) => docs[i].embedding = docs0[i].embedding
        /\ ret = None

\* a completed call on root records only, with a sub-record that has text
C10_Witness ==
    /\ pc = "returned"
    /\ ThePath = "@r"
    /\ \E i, j \in 1..Len(docs) :
        /\ docs0[i].level = "r" /\ docs[i].embedding # docs0[i].embedding
        /\ docs0[j].level = "c" /\ docs0[j].text # <<>>
        /\ docs[j].embedding = docs0[j].embedding
====
